---------------------------- MODULE Spec2Model ----------------------------
(***************************************************************************)
(* Model of the bus service of mkock/busproject (busservice/busservice.go  *)
(* and the driver main.go).                                                *)
(*                                                                         *)
(* One Bus (the value built by NewBus) is driven through AddStop, Go and   *)
(* BusStop.NotifyProspectArrival.  BusStop objects are the members of      *)
(* StopObjs; a *BusStop is the object's number.  Two objects can carry the *)
(* same Name, and BusStop.Equals compares names only.                      *)
(*                                                                         *)
(* Go slices are modelled with their backing arrays: a slice value is a    *)
(* header [arr, len] into the heap `arrays`, and append writes in place    *)
(* when len < cap and allocates a doubled array otherwise (the growth of   *)
(* the gc runtime for pointer elements: 1, 2, 4, 8).  BusStop.busses is a  *)
(* []Bus, a slice of Bus VALUES, so each element carries its own copy of   *)
(* the slice header of Bus.stops taken when the element was stored.        *)
(*                                                                         *)
(* A panic (index out of range in Go, "invalid SSN" in IsSenior) ends the  *)
(* process: `crashed` becomes TRUE and no operation runs afterwards.       *)
(* Money is counted in tenths (45 = 4.5).                                  *)
(***************************************************************************)
EXTENDS Integers, Sequences, FiniteSets, TLC

\* ------------------------------------------------------------------ bounds
MaxStops == 3        \* longest route built by AddStop
MaxProspects == 2    \* waiting riders registered over all stops
MaxBusses == 1       \* Bus values stored in the busses lists of all stops
MaxKnownStops == 4   \* longest route when stops know the bus

\* ------------------------------------------------------- program constants
SeniorAge == 65
Sunday == 0
Saturday == 6
Weekdays == 0..6     \* time.Weekday: Sunday = 0 .. Saturday = 6

\* ------------------------------------------------------------------ inputs
\* BusStop objects: s1, s2, s3 of main, and two further objects that have
\* the names of s2 and of s1.
StopObjs == 1..5
Name(s) == CASE s = 1 -> "Downtown"
             [] s = 2 -> "The University"
             [] s = 3 -> "The Village"
             [] s = 4 -> "The University"
             [] s = 5 -> "Downtown"

\* SSNs are strings, modelled as sequences of characters.  John and Betty
\* are the riders of main (shortened to the part the code reads), Bad ends
\* in a non-digit.
John == <<"2", "-", "2", "2">>
Betty == <<"3", "-", "6", "7">>
Bad == <<"9", "-", "x", "7">>
SSNs == {John, Betty, Bad}

\* The stops put on the route and the stop riders wait at.  Objects 4 and 5
\* are only ever destinations: pointers to other BusStop values.
RouteStops == {1, 2, 3}
WaitingStops == {1}

Prospect(ssn, dest) == [SSN |-> ssn, Destination |-> dest]

\* The waiting riders that register: John and Betty as in main, John for
\* the other University and the other Downtown object, Bad for the Village.
Prospects == {Prospect(John, 2), Prospect(Betty, 3), Prospect(John, 4),
              Prospect(John, 5), Prospect(Bad, 3)}

VARIABLES
  arrays,       \* heap: backing arrays of the []*BusStop slices, 0 = unused slot
  stops,        \* Bus.stops of the bus: slice header [arr, len], arr = 0 is nil
  currentStop,  \* Bus.currentStop
  passengers,   \* Bus.passengers: map SSN -> Passenger
  prospects,    \* BusStop.prospects of every stop object
  busses,       \* BusStop.busses of every stop object: Bus values
  crashed,      \* the process has panicked
  out,          \* what the last Go printed and returned
  boardedTimes, \* history: per waiting-list entry, how often it was boarded
  lateChange,   \* history: AddStop or NotifyProspectArrival ran after the first Go
  call          \* the last direct call of a function or method, and its result

vars == <<arrays, stops, currentStop, passengers, prospects, busses, crashed,
          out, boardedTimes, lateChange, call>>

\* ----------------------------------------------------------------- slices
NilSlice == [arr |-> 0, len |-> 0]

Cap(heap, h) == IF h.arr = 0 THEN 0 ELSE Len(heap[h.arr])

\* The elements a slice header denotes.
Elems(heap, h) == IF h.arr = 0 THEN << >> ELSE SubSeq(heap[h.arr], 1, h.len)

\* append(h, x): [heap, h] after the append.  In place when there is room,
\* otherwise a new array of doubled capacity (1 from nil).
SliceAppend(heap, h, x) ==
  IF h.len < Cap(heap, h)
  THEN [heap |-> [heap EXCEPT ![h.arr][h.len + 1] = x],
        h    |-> [h EXCEPT !.len = h.len + 1]]
  ELSE LET newcap == IF Cap(heap, h) = 0 THEN 1 ELSE 2 * Cap(heap, h)
           old    == Elems(heap, h)
           fresh  == [i \in 1..newcap |->
                        IF i <= h.len THEN old[i]
                        ELSE IF i = h.len + 1 THEN x ELSE 0]
       IN [heap |-> Append(heap, fresh),
           h    |-> [arr |-> Len(heap) + 1, len |-> h.len + 1]]

\* The route of the bus.
Route == Elems(arrays, stops)

\* ---------------------------------------------------------------- BusStop
Equals(a, b) == Name(a) = Name(b)

\* Mutant of StopsAt: the loop answers on the stops that differ.
StopsAtOther(route, busStop) ==
  \E i \in 1..Len(route) : ~Equals(route[i], busStop)

\* Bus.StopsAt over the elements of b.stops.
StopsAt(route, busStop) == \E i \in 1..Len(route) : Equals(route[i], busStop)

\* -------------------------------------------------------------- Passenger
ToPassenger(p) ==
  [SSN |-> p.SSN, SeatNumber |-> 0, Destination |-> p.Destination,
   HasValidTicket |-> FALSE]

Digits == {"0", "1", "2", "3", "4", "5", "6", "7", "8", "9"}
DigitVal(c) == CASE c = "0" -> 0 [] c = "1" -> 1 [] c = "2" -> 2 [] c = "3" -> 3
                 [] c = "4" -> 4 [] c = "5" -> 5 [] c = "6" -> 6 [] c = "7" -> 7
                 [] c = "8" -> 8 [] c = "9" -> 9

\* strconv.ParseInt(s, 10, 8) for a two-character s: [err, val].
ParseInt(s) ==
  IF s[1] \in Digits /\ s[2] \in Digits
  THEN [err |-> FALSE, val |-> 10 * DigitVal(s[1]) + DigitVal(s[2])]
  ELSE IF s[1] = "+" /\ s[2] \in Digits
  THEN [err |-> FALSE, val |-> DigitVal(s[2])]
  ELSE IF s[1] = "-" /\ s[2] \in Digits
  THEN [err |-> FALSE, val |-> 0 - DigitVal(s[2])]
  ELSE [err |-> TRUE, val |-> 0]

\* Mutant of IsSenior: a passenger of exactly SeniorAge is not a senior.
IsSeniorStrict(p) ==
  IF Len(p.SSN) < 2 THEN [panic |-> TRUE, val |-> FALSE]
  ELSE LET r == ParseInt(SubSeq(p.SSN, Len(p.SSN) - 1, Len(p.SSN)))
       IN IF r.err THEN [panic |-> TRUE, val |-> FALSE]
          ELSE [panic |-> FALSE, val |-> r.val > SeniorAge]

\* Passenger.IsSenior: [panic, val].  Slicing SSN[len-2:] panics on an SSN
\* shorter than two characters, a parse error panics with "invalid SSN".
IsSenior(p) ==
  IF Len(p.SSN) < 2 THEN [panic |-> TRUE, val |-> FALSE]
  ELSE LET r == ParseInt(SubSeq(p.SSN, Len(p.SSN) - 1, Len(p.SSN)))
       IN IF r.err THEN [panic |-> TRUE, val |-> FALSE]
          ELSE [panic |-> FALSE, val |-> r.val >= SeniorAge]

\* The price calculators: [panic, amount].
WorkdayPricing(p) ==
  LET s == IsSenior(p)
  IN [panic |-> s.panic, amount |-> IF s.val THEN 45 ELSE 60]

WeekendPricing(p) ==
  LET s == IsSenior(p)
  IN [panic |-> s.panic, amount |-> IF s.val THEN 35 ELSE 50]

\* BusCompany.GetPricing on weekday wd, applied to p.
GetPricing(wd, p) ==
  IF wd = Saturday \/ wd = Sunday THEN WeekendPricing(p) ELSE WorkdayPricing(p)

\* Mutant of Charge: the message is printed, the ticket is not marked.
ChargeNoTicket(p, amount) ==
  IF p.HasValidTicket
  THEN [p |-> p, charged |-> << >>]
  ELSE [p |-> p, charged |-> << [SSN |-> p.SSN, amount |-> amount] >>]

\* Mutant of Charge: the ticket is not looked at.
ChargeAgain(p, amount) ==
  [p |-> [p EXCEPT !.HasValidTicket = TRUE],
   charged |-> << [SSN |-> p.SSN, amount |-> amount] >>]

\* Passenger.Charge: [p, charged], charged = the charge messages printed.
Charge(p, amount) ==
  IF p.HasValidTicket
  THEN [p |-> p, charged |-> << >>]
  ELSE [p |-> [p EXCEPT !.HasValidTicket = TRUE],
        charged |-> << [SSN |-> p.SSN, amount |-> amount] >>]

\* ------------------------------------------------------------- Passengers
NewPassengerSet == [k \in {} |-> 0]

\* Bus.add: b.passengers[p.SSN] = p.
add(pass, p) ==
  [k \in DOMAIN pass \cup {p.SSN} |-> IF k = p.SSN THEN p ELSE pass[k]]

\* Mutant of Remove: nothing is deleted.
RemoveNone(pass, p) == pass

\* Bus.Remove: delete(b.passengers, p.SSN).
Remove(pass, p) == [k \in DOMAIN pass \ {p.SSN} |-> pass[k]]

\* Removing every member of a set of passengers, as a Visit whose visitor
\* removes does.
RECURSIVE RemoveAll(_, _)
RemoveAll(pass, ps) ==
  IF ps = {} THEN pass
  ELSE LET p == CHOOSE q \in ps : TRUE
       IN RemoveAll(Remove(pass, p), ps \ {p})

\* --------------------------------------------------------------------- Bus
\* Mutant of Board: a passenger who is aboard already is stored again
\* without being charged.
BoardSkipsAboard(pass, p, wd) ==
  IF p.HasValidTicket \/ p.SSN \in DOMAIN pass
  THEN [pass |-> add(pass, p), charged |-> << >>, boarded |-> <<p>>,
        panic |-> FALSE]
  ELSE LET price == GetPricing(wd, p)
           c     == Charge(p, price.amount)
       IN IF price.panic
          THEN [pass |-> pass, charged |-> << >>, boarded |-> << >>,
                panic |-> TRUE]
          ELSE [pass |-> add(pass, c.p), charged |-> c.charged,
                boarded |-> <<c.p>>, panic |-> FALSE]

\* Bus.Board with the price calculator of weekday wd:
\* [pass, charged, boarded, panic].
Board(pass, p, wd) ==
  IF p.HasValidTicket
  THEN [pass |-> add(pass, p), charged |-> << >>, boarded |-> <<p>>,
        panic |-> FALSE]
  ELSE LET price == GetPricing(wd, p)
           c     == Charge(p, price.amount)
       IN IF price.panic
          THEN [pass |-> pass, charged |-> << >>, boarded |-> << >>,
                panic |-> TRUE]
          ELSE [pass |-> add(pass, c.p), charged |-> c.charged,
                boarded |-> <<c.p>>, panic |-> FALSE]

\* ------------------------------------------------- BusStop.NotifyBusArrival
\* Mutant of Alighting: the destination is compared as a pointer.
AlightingByPointer(pass, curr) ==
  {pass[k] : k \in {j \in DOMAIN pass : curr = pass[j].Destination}}

\* First loop: the riders whose destination equals the current stop.
Alighting(pass, curr) ==
  {pass[k] : k \in {j \in DOMAIN pass : Equals(curr, pass[j].Destination)}}

\* Mutant of AlightPhase: nobody leaves.
AlightPhaseNone(pass, curr) == pass

AlightPhase(pass, curr) == RemoveAll(pass, Alighting(pass, curr))

\* Second loop, from waiting-list entry i on, on weekday wd (the loop reads
\* the clock for every entry; one arrival is taken to fall on one day).  st = [pass, charged, boarded,
\* times, panic]; times counts the boardings of every entry.
RECURSIVE BoardPhase(_, _, _, _, _)
BoardPhase(st, ps, i, route, wd) ==
  IF i > Len(ps) \/ st.panic THEN st
  ELSE IF StopsAt(route, ps[i].Destination)
  THEN LET r == Board(st.pass, ToPassenger(ps[i]), wd)
       IN BoardPhase([pass    |-> r.pass,
                      charged |-> st.charged \o r.charged,
                      boarded |-> st.boarded \o r.boarded,
                      times   |-> IF r.panic THEN st.times
                                  ELSE [st.times EXCEPT ![i] = @ + 1],
                      panic   |-> r.panic],
                     ps, i + 1, route, wd)
  ELSE BoardPhase(st, ps, i + 1, route, wd)

\* Mutant of Waiting: the riders who boarded are taken off the list.
WaitingLeft(ps, route) ==
  SelectSeq(ps, LAMBDA w : ~StopsAt(route, w.Destination))

\* b.prospects after NotifyBusArrival: the boarding loop ranges over the
\* list and never writes it.
Waiting(ps, route) == ps

NotifyBusArrival(pass, curr, ps, times, route, wd) ==
  BoardPhase([pass |-> AlightPhase(pass, curr), charged |-> << >>,
              boarded |-> << >>, times |-> times, panic |-> FALSE],
             ps, 1, route, wd)

\* ------------------------------------------------------------------ state
NoOutput == [ret |-> "none", charged |-> << >>, boarded |-> << >>,
             unboarded |-> {}]

NoCall == [fn |-> "none"]

Init ==
  /\ arrays = << >>
  /\ stops = NilSlice
  /\ currentStop = -1
  /\ passengers = NewPassengerSet
  /\ prospects = [s \in StopObjs |-> << >>]
  /\ busses = [s \in StopObjs |-> << >>]
  /\ crashed = FALSE
  /\ out = NoOutput
  /\ boardedTimes = [s \in StopObjs |-> << >>]
  /\ lateChange = FALSE
  /\ call = NoCall

\* Bus.AddStop on the bus.
AddStop(busStop) ==
  /\ ~crashed
  /\ LET r == SliceAppend(arrays, stops, busStop)
     IN /\ arrays' = r.heap
        /\ stops' = r.h
  /\ lateChange' = (lateChange \/ currentStop >= 0)
  /\ UNCHANGED <<call, currentStop, passengers, prospects, busses, crashed, out,
                 boardedTimes>>

\* Mutant of LastIndex: off by one.
LastIndexOff(route) == Len(route)

LastIndex(route) == Len(route) - 1

\* Mutant of MoreStops: the comparison is turned round.
MoreStopsWrong(pos, lastIndex) == pos > lastIndex

\* Go's return value on a stop that is not the last.
MoreStops(pos, lastIndex) == pos < lastIndex

\* Bus.Go.
Go ==
  /\ ~crashed
  /\ currentStop' = currentStop + 1
  /\ LET route == Route
         lastIndex == LastIndex(route)
     IN IF currentStop' = lastIndex
        THEN \* end of the line: every passenger is removed
             /\ passengers' = RemoveAll(passengers,
                                  {passengers[k] : k \in DOMAIN passengers})
             /\ out' = [ret |-> "false", charged |-> << >>, boarded |-> << >>,
                        unboarded |-> {passengers[k].SSN :
                                         k \in DOMAIN passengers}]
             /\ UNCHANGED <<crashed, boardedTimes, prospects>>
        ELSE IF currentStop' + 1 > Len(route)
        THEN \* b.stops[b.currentStop]: index out of range
             /\ crashed' = TRUE
             /\ out' = [NoOutput EXCEPT !.ret = "panic"]
             /\ UNCHANGED <<passengers, boardedTimes, prospects>>
        ELSE LET curr == route[currentStop' + 1]
             IN \E wd \in Weekdays :
                  \E r \in {NotifyBusArrival(passengers, curr, prospects[curr],
                                              boardedTimes[curr], route, wd)} :
                     /\ passengers' = r.pass
                     /\ boardedTimes' = [boardedTimes EXCEPT ![curr] = r.times]
                     /\ prospects' = [prospects EXCEPT
                                        ![curr] = Waiting(@, route)]
                     /\ crashed' = r.panic
                     /\ out' = [ret |-> IF r.panic THEN "panic"
                                        ELSE IF MoreStops(currentStop', lastIndex)
                                        THEN "true" ELSE "false",
                                charged |-> r.charged,
                                boarded |-> r.boarded,
                                unboarded |-> {p.SSN : p \in
                                               Alighting(passengers, curr)}]
  /\ UNCHANGED <<arrays, stops, busses, lateChange, call>>

\* Bus.NotifyBoardingIntent on a Bus value with slice header h: the heap
\* after it.  The header the append returns stays in the Bus value it was
\* called on.
NotifyBoardingIntent(heap, h, busStop) ==
  IF StopsAt(Elems(heap, h), busStop) THEN [heap |-> heap, h |-> h]
  ELSE SliceAppend(heap, h, busStop)

\* The loop of NotifyProspectArrival over b.busses from element i on.  Each
\* round copies the element into the loop variable `bus`; an append that
\* allocates is seen through that variable only and leaves the heap as it
\* was.
RECURSIVE NotifyBusses(_, _, _, _, _)
NotifyBusses(heap, bs, i, b, p) ==
  IF i > Len(bs) THEN heap
  ELSE LET h == bs[i].stops
           r == NotifyBoardingIntent(heap, h, b)
           heap2 == IF StopsAt(Elems(heap, h), p.Destination)
                      /\ Len(r.heap) = Len(heap)
                    THEN r.heap ELSE heap
       IN NotifyBusses(heap2, bs, i + 1, b, p)

TotalProspects == LET RECURSIVE Sum(_)
                      Sum(S) == IF S = {} THEN 0
                                ELSE LET s == CHOOSE x \in S : TRUE
                                     IN Len(prospects[s]) + Sum(S \ {s})
                  IN Sum(StopObjs)

TotalBusses == LET RECURSIVE Sum(_)
                   Sum(S) == IF S = {} THEN 0
                             ELSE LET s == CHOOSE x \in S : TRUE
                                  IN Len(busses[s]) + Sum(S \ {s})
               IN Sum(StopObjs)

\* BusStop.NotifyProspectArrival on stop object b.
NotifyProspectArrival(b, p) ==
  /\ ~crashed
  /\ prospects' = [prospects EXCEPT ![b] = Append(@, p)]
  /\ boardedTimes' = [boardedTimes EXCEPT ![b] = Append(@, 0)]
  /\ arrays' = NotifyBusses(arrays, busses[b], 1, b, p)
  /\ lateChange' = (lateChange \/ currentStop >= 0)
  /\ UNCHANGED <<stops, currentStop, passengers, busses, crashed, out, call>>

\* A stop object gets to know the bus: the Bus value is stored in its
\* busses list (busses []Bus), which copies the fields of the Bus.
KnowBus(b) ==
  /\ ~crashed
  /\ busses' = [busses EXCEPT ![b] = Append(@, [stops |-> stops])]
  /\ UNCHANGED <<arrays, stops, currentStop, passengers, prospects, crashed,
                 out, boardedTimes, lateChange, call>>

\* Bus.NotifyBoardingIntent called on the bus itself.
BoardingIntent(busStop) ==
  /\ ~crashed
  /\ \E r \in {NotifyBoardingIntent(arrays, stops, busStop)} :
       /\ arrays' = r.heap
       /\ stops' = r.h
  /\ lateChange' = (lateChange \/ currentStop >= 0)
  /\ UNCHANGED <<call, currentStop, passengers, prospects, busses, crashed, out,
                 boardedTimes>>

\* The program driven through its exported operations: no stop knows a bus.
Next ==
  \/ \E s \in RouteStops : stops.len < MaxStops /\ AddStop(s)
  \/ Go
  \/ \E s \in WaitingStops, p \in Prospects :
       TotalProspects < MaxProspects /\ NotifyProspectArrival(s, p)

Spec == Init /\ [][Next]_vars

\* Building the route and registering waiting riders at stops that know the
\* bus, before the bus leaves.  The waiting riders are John's.
KnownProspects == {p \in Prospects : p.SSN = John}

NextKnown ==
  \/ \E s \in RouteStops : stops.len < MaxKnownStops /\ AddStop(s)
  \/ \E s \in WaitingStops, p \in KnownProspects :
       TotalProspects < MaxProspects /\ NotifyProspectArrival(s, p)
  \/ \E s \in WaitingStops : TotalBusses < MaxBusses /\ KnowBus(s)
  \/ \E s \in {4} : stops.len < MaxKnownStops /\ BoardingIntent(s)

SpecKnown == Init /\ [][NextKnown]_vars

\* ------------------------------------------------- functions called alone
\* Passenger values and amounts handed to the functions below.
Riders == [SSN : SSNs, SeatNumber : {0}, Destination : {2, 3},
           HasValidTicket : BOOLEAN]
Amounts == {35, 45, 50, 60}

\* p.Charge(a).Charge(b): both results are kept.
CallCharge(p, a, b) ==
  /\ call' = [fn |-> "Charge", p |-> p, a |-> a, b |-> b,
              first |-> Charge(p, a),
              second |-> Charge(Charge(p, a).p, b)]
  /\ UNCHANGED <<arrays, stops, currentStop, passengers, prospects, busses,
                 crashed, out, boardedTimes, lateChange>>

\* Passenger values whose SSN ends in the two digits of an age 00..99.
Ages == 0..99
DigitChars == <<"0", "1", "2", "3", "4", "5", "6", "7", "8", "9">>
TwoDigits(n) == <<DigitChars[(n \div 10) + 1], DigitChars[(n % 10) + 1]>>
Aged(age, dest, ticket) ==
  [SSN |-> <<"1", "-">> \o TwoDigits(age), SeatNumber |-> 0,
   Destination |-> dest, HasValidTicket |-> ticket]

\* p.IsSenior() and BusCompany.GetPricing()(p) on weekday wd.
CallPricing(age, wd, dest, ticket) ==
  /\ call' = [fn |-> "Pricing", age |-> age, wd |-> wd,
              p |-> Aged(age, dest, ticket),
              senior |-> IsSenior(Aged(age, dest, ticket)),
              price |-> GetPricing(wd, Aged(age, dest, ticket))]
  /\ UNCHANGED <<arrays, stops, currentStop, passengers, prospects, busses,
                 crashed, out, boardedTimes, lateChange>>

\* One call per behaviour: the functions read nothing but their arguments.
NextCalls ==
  \/ \E p \in Riders, a \in Amounts, b \in Amounts :
       call = NoCall /\ CallCharge(p, a, b)
  \/ \E age \in Ages, wd \in Weekdays, dest \in {2, 3}, ticket \in BOOLEAN :
       call = NoCall /\ CallPricing(age, wd, dest, ticket)

SpecCalls == Init /\ [][NextCalls]_vars

\* ------------------------------------------- methods of Bus called directly
\* Passengers.Manifest: the SSN of every value of the map, in map order;
\* kept as a bag, SSN -> number of times it is listed.
Manifest(pass) ==
  [ssn \in {pass[k].SSN : k \in DOMAIN pass} |->
     Cardinality({k \in DOMAIN pass : pass[k].SSN = ssn})]

\* The passengers handed to Board and Remove.
Boarders == {p \in Riders : p.SSN \in {John, Betty}}

\* What a visitor handed to UpdatePassengers does to *Passenger: it writes
\* another SSN, one that no boarding passenger has, or HasValidTicket.
Anon == <<"0", "-", "0", "0">>
Visitors == {"rename", "punch"}
Visit(v, p) ==
  IF v = "rename" THEN [p EXCEPT !.SSN = Anon]
  ELSE [p EXCEPT !.HasValidTicket = FALSE]

\* Bus.CurrentStop: b.stops[b.currentStop], index out of range panics.
CurrentStop ==
  /\ ~crashed
  /\ IF currentStop >= 0 /\ currentStop < Len(Route)
     THEN /\ call' = [fn |-> "CurrentStop", panic |-> FALSE,
                      ret |-> Route[currentStop + 1]]
          /\ UNCHANGED crashed
     ELSE /\ call' = [fn |-> "CurrentStop", panic |-> TRUE, ret |-> 0]
          /\ crashed' = TRUE
  /\ UNCHANGED <<arrays, stops, currentStop, passengers, prospects, busses,
                 out, boardedTimes, lateChange>>

\* Bus.Board(&p, b.Company.GetPricing()) called on weekday wd.
BusBoard(p, wd) ==
  /\ ~crashed
  /\ \E r \in {Board(passengers, p, wd)} :
       /\ passengers' = r.pass
       /\ crashed' = r.panic
       /\ call' = [fn |-> "Board", p |-> p, panic |-> r.panic]
  /\ UNCHANGED <<arrays, stops, currentStop, prospects, busses, out,
                 boardedTimes, lateChange>>

\* Bus.Remove(p).
BusRemove(p) ==
  /\ ~crashed
  /\ passengers' = Remove(passengers, p)
  /\ call' = [fn |-> "Remove", p |-> p, panic |-> FALSE]
  /\ UNCHANGED <<arrays, stops, currentStop, prospects, busses, crashed, out,
                 boardedTimes, lateChange>>

\* Bus.UpdatePassengers(visitor): every value is replaced by what the
\* visitor made of it, under the key it had.
UpdatePassengers(v) ==
  /\ ~crashed
  /\ passengers' = [k \in DOMAIN passengers |-> Visit(v, passengers[k])]
  /\ call' = [fn |-> "UpdatePassengers", v |-> v, panic |-> FALSE]
  /\ UNCHANGED <<arrays, stops, currentStop, prospects, busses, crashed, out,
                 boardedTimes, lateChange>>

\* A driver that calls the methods of one bus; nobody waits at a stop.
NextApi ==
  \/ \E s \in {2, 3} : stops.len < MaxStops /\ AddStop(s)
  \/ Go
  \/ CurrentStop
  \/ \E p \in Boarders, wd \in {Sunday, 1} : BusBoard(p, wd)
  \/ \E p \in Boarders : BusRemove(p)
  \/ \E v \in Visitors : UpdatePassengers(v)

SpecApi == Init /\ [][NextApi]_vars

\* ================================================================= claims
\* Helpers of the formulas below.  They read the state directly.
OnRoute(route, d) == \E j \in 1..Len(route) : Name(route[j]) = Name(d)
IsGoStep == currentStop' = currentStop + 1
ArrivalStep == IsGoStep /\ currentStop' >= 0 /\ currentStop' < Len(Route) - 1
BoardedSSNs(o) == {o.boarded[i].SSN : i \in 1..Len(o.boarded)}
ChargedSSNs(o) == [i \in 1..Len(o.charged) |-> o.charged[i].SSN]
Eligible(route, ps) == {i \in 1..Len(ps) : OnRoute(route, ps[i].Destination)}

\* The scenario of main: route [Downtown, University, Village], John (to the
\* University) and Betty (to the Village) waiting at Downtown, nothing added
\* after the bus left.
MainScenario ==
  /\ Route = <<1, 2, 3>>
  /\ prospects = [s \in StopObjs |->
                    IF s = 1 THEN <<Prospect(John, 2), Prospect(Betty, 3)>>
                    ELSE << >>]
  /\ ~lateChange

\* C1: in the scenario of main, after the first Go the passengers are
\* exactly John and Betty, each charged once, and Go returned true; after
\* the second Go only Betty is aboard and Go returned true; after the third
\* Go nobody is aboard and Go returned false.
C1_EndToEnd ==
  MainScenario =>
    /\ currentStop = 0 =>
         /\ DOMAIN passengers = {John, Betty}
         /\ ChargedSSNs(out) = <<John, Betty>>
         /\ boardedTimes[1] = <<1, 1>>
         /\ out.ret = "true"
    /\ currentStop = 1 =>
         /\ DOMAIN passengers = {Betty}
         /\ boardedTimes[1] = <<1, 1>>
         /\ out.ret = "true"
    /\ currentStop = 2 =>
         /\ DOMAIN passengers = {}
         /\ boardedTimes[1] = <<1, 1>>
         /\ out.ret = "false"

C1_Witness ==
  MainScenario /\ currentStop = 2 /\ out.ret = "false"
    /\ out.unboarded = {Betty}

\* C2: a Go that moves the bus to the last index of the route leaves no
\* passenger aboard, returns false and runs no arrival at that stop: nobody
\* boards and nobody is charged.
C2_TerminalEmpties ==
  [][(IsGoStep /\ currentStop' = Len(Route') - 1) =>
       /\ DOMAIN passengers' = {}
       /\ out'.ret = "false"
       /\ out'.charged = << >>
       /\ out'.boarded = << >>
       /\ boardedTimes' = boardedTimes
       /\ ~crashed']_vars

C2_Witness ==
  /\ Len(Route) >= 2
  /\ currentStop = Len(Route) - 1
  /\ out.ret = "false"
  /\ out.unboarded # {}
  /\ \E i \in 1..Len(prospects[Route[Len(Route)]]) :
       OnRoute(Route, prospects[Route[Len(Route)]][i].Destination)

\* C3: the position of the bus is -1 or an index of the route.
C3_PositionInRange == currentStop \in {-1} \cup (0..(Len(Route) - 1))

\* C4: a Go that does not fail returns true exactly when the new position is
\* below the last index of the route, so on an unchanged route of n stops
\* calls 1 .. n-1 return true and call n is the first to return false.
C4_MoreStopsIff ==
  [][(IsGoStep /\ ~crashed') =>
       (out'.ret = "true" <=> currentStop' < Len(Route') - 1)
       /\ (out'.ret = "false" <=> currentStop' = Len(Route') - 1)]_vars

C4_Witness ==
  /\ ~lateChange
  /\ Len(Route) = 3
  /\ currentStop = 2
  /\ out.ret = "false"

\* C5: a Go on a bus that stands at the last stop of its route returns false
\* with nobody aboard, and does not panic.
C5_GoAfterTerminal ==
  [][(IsGoStep /\ currentStop >= 0 /\ currentStop = Len(Route) - 1) =>
       /\ ~crashed'
       /\ out'.ret = "false"
       /\ DOMAIN passengers' = {}]_vars

\* C6: whoever boards during a Go has a destination that is, by name, on the
\* route of the bus at that moment.
C6_BoardsOnlyIfOnRoute ==
  [][IsGoStep =>
       /\ \A i \in 1..Len(out'.boarded) :
            OnRoute(Route, out'.boarded[i].Destination)
       /\ \A k \in DOMAIN passengers' :
            (k \notin DOMAIN passengers \/ passengers'[k] # passengers[k])
              => OnRoute(Route, passengers'[k].Destination)]_vars

C6_Witness ==
  /\ currentStop >= 0 /\ currentStop < Len(Route) - 1
  /\ ~lateChange
  /\ out.boarded # << >>
  /\ \E i \in 1..Len(prospects[Route[currentStop + 1]]) :
       /\ ~OnRoute(Route, prospects[Route[currentStop + 1]][i].Destination)
       /\ prospects[Route[currentStop + 1]][i].SSN \notin DOMAIN passengers

\* C7: on arrival at a stop that is not the last, the passengers whose
\* destination has the name of that stop are unboarded, and nobody else is;
\* who stays is unchanged, and a waiting rider that boards at this stop under
\* the SSN of somebody who just left is aboard afterwards.
C7_AlightExactly ==
  [][ArrivalStep =>
       LET S == Route[currentStop' + 1]
           gone == {k \in DOMAIN passengers :
                      Name(passengers[k].Destination) = Name(S)}
       IN /\ out'.unboarded = gone
          /\ \A k \in DOMAIN passengers :
               IF k \in gone
               THEN (k \in DOMAIN passengers' <=> k \in BoardedSSNs(out'))
               ELSE /\ k \in DOMAIN passengers'
                    /\ k \notin BoardedSSNs(out')
                         => passengers'[k] = passengers[k]]_vars

\* The University (object 2) was reached, John left although his destination
\* is object 4, and Betty stays aboard.
C7_Witness ==
  /\ currentStop >= 0 /\ currentStop < Len(Route) - 1
  /\ Route[currentStop + 1] = 2
  /\ out.unboarded = {John}
  /\ prospects[1] = <<Prospect(John, 4), Prospect(Betty, 3)>>
  /\ DOMAIN passengers = {Betty}
  /\ out.boarded = << >>

\* C8 as claimed: after an arrival at a stop that is not the last, for every
\* waiting rider of the stop whose destination is on the route the bus
\* carries a passenger with that SSN and that destination and a valid
\* ticket, and one charge was printed for that SSN.
C8_BoardsEveryEligible ==
  [][(ArrivalStep /\ ~crashed') =>
       LET S == Route[currentStop' + 1]
           ps == prospects[S]
       IN \A i \in Eligible(Route, ps) :
            /\ ps[i].SSN \in DOMAIN passengers'
            /\ passengers'[ps[i].SSN].Destination = ps[i].Destination
            /\ passengers'[ps[i].SSN].HasValidTicket
            /\ Cardinality({j \in 1..Len(out'.charged) :
                             out'.charged[j].SSN = ps[i].SSN}) = 1]_vars

\* C8 amended: ... the bus carries a passenger with that SSN and a valid
\* ticket whose destination is that of the last such waiting rider with that
\* SSN, one charge is printed per such waiting-list entry, in list order, and
\* every passenger aboard has a valid ticket.
C8_BoardsLastEligible ==
  [][(ArrivalStep /\ ~crashed') =>
       LET S == Route[currentStop' + 1]
           ps == prospects[S]
           el == Eligible(Route, ps)
           last(ssn) == CHOOSE i \in el :
                          /\ ps[i].SSN = ssn
                          /\ \A j \in el : ps[j].SSN = ssn => j <= i
       IN /\ \A i \in el :
               /\ ps[i].SSN \in DOMAIN passengers'
               /\ passengers'[ps[i].SSN].Destination
                    = ps[last(ps[i].SSN)].Destination
               /\ passengers'[ps[i].SSN].HasValidTicket
               /\ Cardinality({j \in 1..Len(out'.charged) :
                                out'.charged[j].SSN = ps[i].SSN})
                    = Cardinality({j \in el : ps[j].SSN = ps[i].SSN})
          /\ Len(out'.charged) = Cardinality(el)
          /\ \A k \in DOMAIN passengers' : passengers'[k].HasValidTicket]_vars

\* John waits at Downtown twice, for the University and for (the other)
\* Downtown; the bus has just taken him aboard there.
C8_Witness ==
  /\ Route = <<1, 2, 3>>
  /\ currentStop = 0
  /\ prospects[1] = <<Prospect(John, 2), Prospect(John, 5)>>
  /\ ChargedSSNs(out) = <<John, John>>
  /\ DOMAIN passengers = {John}
  /\ passengers[John].Destination = 5
  /\ passengers[John].HasValidTicket

\* C9: no entry of a waiting list is turned into a passenger, charged and
\* boarded more than once.
C9_BoardedAtMostOnce ==
  \A s \in StopObjs : \A i \in 1..Len(boardedTimes[s]) : boardedTimes[s][i] <= 1

\* C10: NotifyProspectArrival(w) at stop S appends w to the waiting list of
\* S, and afterwards the bus, if S knows it and its route contains the
\* destination of w, has S on its own route.
C10_KnownBusStopsHere ==
  [][\A S \in StopObjs :
       prospects'[S] # prospects[S] =>
         LET w == prospects'[S][Len(prospects'[S])]
         IN /\ prospects'[S] = Append(prospects[S], w)
            /\ (busses[S] # << >> /\ OnRoute(Route, w.Destination))
                 => OnRoute(Route', S)]_vars

\* C11: on a route of fewer than two stops (none or one) the first Go
\* returns false (no further stops), boards no waiting rider and does not
\* panic.
C11_ShortRouteFirstGo ==
  [][(IsGoStep /\ currentStop = -1 /\ Len(Route) < 2) =>
       (~crashed' /\ out'.ret = "false" /\ out'.boarded = << >>)]_vars

\* C12: HasValidTicket never goes from true to false for a passenger who
\* stays in the passenger set, whatever runs (Charge, Board, add, the
\* alighting and boarding of an arrival, Go, NotifyProspectArrival).
C12_TicketStaysValid ==
  [][\A k \in DOMAIN passengers \cap DOMAIN passengers' :
       passengers[k].HasValidTicket => passengers'[k].HasValidTicket]_vars

\* A passenger who was aboard with a ticket is boarded a second time, from
\* the same waiting-list entry, and has a valid ticket afterwards.
C12_Witness ==
  \E s \in StopObjs : \E i \in 1..Len(prospects[s]) :
    /\ boardedTimes[s][i] >= 2
    /\ prospects[s][i].SSN \in DOMAIN passengers
    /\ passengers[prospects[s][i].SSN].HasValidTicket

\* C13: Charge is idempotent: p.Charge(a).Charge(b) is p.Charge(a) and the
\* second call prints nothing; a passenger with a valid ticket comes back
\* unchanged and nothing is printed; a passenger without one is charged
\* exactly once, amount a, and comes back with only HasValidTicket changed,
\* to true.
C13_ChargeIdempotent ==
  call.fn = "Charge" =>
    /\ call.second.p = call.first.p
    /\ call.second.charged = << >>
    /\ call.p.HasValidTicket =>
         call.first.p = call.p /\ call.first.charged = << >>
    /\ ~call.p.HasValidTicket =>
         /\ call.first.charged = << [SSN |-> call.p.SSN, amount |-> call.a] >>
         /\ call.first.p.HasValidTicket
         /\ call.first.p.SSN = call.p.SSN
         /\ call.first.p.SeatNumber = call.p.SeatNumber
         /\ call.first.p.Destination = call.p.Destination

C13_Witness ==
  /\ call.fn = "Charge"
  /\ ~call.p.HasValidTicket
  /\ call.a # call.b
  /\ Len(call.first.charged) = 1
  /\ call.first.p.HasValidTicket

\* C14: SSNs are unique in the passenger set of a bus: boarding a passenger
\* whose SSN is a key of the set overwrites and leaves the size unchanged,
\* boarding a new SSN grows the size by exactly one, and after any sequence
\* of operations the manifest lists every SSN at most once.
C14_UniqueIds ==
  [][/\ (call' # call /\ call'.fn = "Board" /\ ~crashed') =>
          Cardinality(DOMAIN passengers') =
            Cardinality(DOMAIN passengers) +
              (IF call'.p.SSN \in DOMAIN passengers THEN 0 ELSE 1)
     /\ \A ssn \in DOMAIN Manifest(passengers') :
          Manifest(passengers')[ssn] <= 1]_vars

\* C15: an SSN whose last two characters are not a base-10 integer, met by
\* IsSenior, the price calculator or the boarding of an arrival, comes back
\* as an error value: the process does not stop and the Go that meets it
\* returns to its caller.
Malformed(ssn) ==
  ~(/\ ssn[Len(ssn) - 1] \in Digits \cup {"+", "-"}
    /\ ssn[Len(ssn)] \in Digits)

C15_MalformedIsRecoverable ==
  [][(ArrivalStep /\
       \E i \in Eligible(Route, prospects[Route[currentStop' + 1]]) :
          Malformed(prospects[Route[currentStop' + 1]][i].SSN)) =>
       (~crashed' /\ out'.ret \in {"true", "false"})]_vars

\* C16: CurrentStop called while currentStop is -1 or outside
\* 0..len(stops)-1 reports an error as a return value: it returns no stop
\* and the process goes on; called with 0 <= currentStop < len(stops) it
\* returns stops[currentStop].
C16_CurrentStopChecked ==
  [][(call' # call /\ call'.fn = "CurrentStop") =>
       /\ ~crashed'
       /\ IF currentStop >= 0 /\ currentStop < Len(Route)
          THEN call'.ret = Route[currentStop + 1]
          ELSE call'.ret = 0]_vars

\* C17: for an SSN that ends in the two digits of an age 00..99, IsSenior
\* is true exactly when the age is at least 65; the price is 4.5 for a
\* senior and 6.0 otherwise on a workday, 3.5 and 5.0 on a weekend day;
\* GetPricing takes the weekend prices exactly on Saturday and Sunday; the
\* price depends on nothing but senior or not and the kind of day.
C17_FarePolicy ==
  call.fn = "Pricing" =>
    /\ ~call.senior.panic
    /\ call.senior.val = (call.age >= 65)
    /\ ~call.price.panic
    /\ call.price.amount =
         IF call.wd \in {Saturday, Sunday}
         THEN (IF call.age >= 65 THEN 35 ELSE 50)
         ELSE (IF call.age >= 65 THEN 45 ELSE 60)

C17_Witness ==
  /\ call.fn = "Pricing"
  /\ call.age = 65
  /\ call.wd = Saturday
  /\ call.p.SSN = <<"1", "-", "6", "5">>
  /\ call.senior.val
  /\ call.price.amount = 35

\* C18: the route is append-only.  NotifyBoardingIntent leaves it as it is
\* when it holds a stop of the same name and appends the stop otherwise,
\* AddStop appends; the stops already on the route keep their order and
\* their indices and currentStop stays, so a stop added on the way becomes
\* the last stop; Go and the arrival at a stop never change the route.
C18_RouteAppendOnly ==
  [][/\ Len(Route') >= Len(Route)
     /\ \A i \in 1..Len(Route) : Route'[i] = Route[i]
     /\ Route' # Route =>
          /\ Len(Route') = Len(Route) + 1
          /\ currentStop' = currentStop
     /\ IsGoStep => Route' = Route]_vars

\* C19 as stated: after a Go that arrives at a stop S that is not the last
\* one and returns, no passenger aboard has a destination named as S,
\* those boarded during this arrival included.
C19_NobodyBoundForHere ==
  [][(ArrivalStep /\ ~crashed') =>
       \A k \in DOMAIN passengers' :
         ~Equals(Route[currentStop' + 1], passengers'[k].Destination)]_vars

\* C19 amended: after such a Go, a passenger aboard whose destination is
\* named as S was boarded during this arrival; nobody carried over from
\* before the arrival is bound for S.
C19_OnlyBoardedHereBoundForHere ==
  [][(ArrivalStep /\ ~crashed') =>
       \A k \in DOMAIN passengers' :
         Equals(Route[currentStop' + 1], passengers'[k].Destination) =>
           \E i \in 1..Len(out'.boarded) : out'.boarded[i] = passengers'[k]]_vars

\* The bus is at a stop S that is not the last one; a passenger left there
\* and a passenger bound for a stop named as S is aboard.
C19_Witness ==
  /\ out.ret = "true"
  /\ currentStop >= 0 /\ currentStop < Len(Route) - 1
  /\ out.unboarded # {}
  /\ \E k \in DOMAIN passengers :
       /\ Equals(Route[currentStop + 1], passengers[k].Destination)
       /\ k \in BoardedSSNs(out)

\* C20: Go and the arrival at a stop leave the waiting list of every stop
\* as it is; a waiting list changes only by NotifyProspectArrival, which
\* appends one entry; it never shrinks, and a waiting rider who boarded is
\* still listed.
C20_WaitingListKept ==
  [][/\ IsGoStep => prospects' = prospects
     /\ \A s \in StopObjs :
          \/ prospects'[s] = prospects[s]
          \/ /\ Len(prospects'[s]) = Len(prospects[s]) + 1
             /\ SubSeq(prospects'[s], 1, Len(prospects[s])) = prospects[s]
             /\ currentStop' = currentStop]_vars

\* The bus has left the stop where two riders wait; one of them boarded,
\* is aboard, and both are still listed.
C20_Witness ==
  \E s \in StopObjs :
    /\ Len(prospects[s]) = 2
    /\ boardedTimes[s][1] = 1 /\ boardedTimes[s][2] = 0
    /\ prospects[s][1].SSN \in DOMAIN passengers
    /\ currentStop >= 1

=============================================================================
